---- MODULE Spec2Model ----
(***************************************************************************)
(* Model of pkg/buffer/buffer.go: the text buffer of the editor.           *)
(*                                                                         *)
(* Bytes are small integers, byte sequences are TLA+ sequences (1-based),  *)
(* byte offsets are the 0-based offsets of the Go code: the byte at offset *)
(* i of data is data[i + 1].                                               *)
(***************************************************************************)
EXTENDS Integers, Sequences, FiniteSets, Bags, TLC

\* ------------------------------------------------------------------ bounds
MaxLen == 4        \* longest byte sequence handed to SetSource on its own
MaxHlLen == 3      \* longest byte sequence highlighted on its own
MaxCaptures == 2   \* most captures the parser yields for one highlight
MaxTasks == 2      \* most parse commands in flight at once
MaxHeight == 5     \* tallest terminal of a WindowSizeMsg
MaxX == 11         \* rightmost terminal column of a mouse click
MaxY == 2          \* lowest terminal row of a mouse click

\* ------------------------------------------------------- program constants
NL == 10             \* '\n'
TAB == 9             \* '\t'
SP == 32             \* ' '
TabWidth == 4        \* indentation added by a tab
DefaultColor == 5    \* 0x05, the base16 class of unstyled text
Gutter == 6          \* width of the line-number gutter
WheelDelta == 3      \* rows scrolled by one wheel event
ChromeRows == 2      \* terminal rows not given to the viewport

\* The bytes the scan tells apart: tab, newline, space and any other byte.
Bytes == {TAB, NL, SP} \cup {120}

\* ------------------------------------------------------------ Go builtins
min(a, b) == IF a < b THEN a ELSE b

max(a, b) == IF a > b THEN a ELSE b

\* Go's integer division truncates toward zero.
GoDiv(a, b) == IF a >= 0 THEN a \div b ELSE -((-a) \div b)

\* bytes.Repeat([]byte{c}, n)
Repeat(c, n) == [j \in 1..n |-> c]

\* A clamp to the closed interval [low, high].
clampInclusive(val, low, high) == max(low, min(val, high))

\* clamp limits the value of val between [low, high)
clamp(val, low, high) == max(low, min(val, high - 1))

\* -------------------------------------------------------------- SourceCode
LineInfo(s, e, ind) == [start |-> s, end |-> e, indentation |-> ind]

ZeroLineInfo == LineInfo(0, 0, 0)

EmptyLines == [r \in {} |-> ZeroLineInfo]

\* lines[row] of a Go map: the zero LineInfo when the key is absent
LineAt(lines, row) == IF row \in DOMAIN lines THEN lines[row] ELSE ZeroLineInfo

\* lines[row] = info of a Go map
SetLine(lines, row, info) ==
    [r \in (DOMAIN lines) \cup {row} |-> IF r = row THEN info ELSE lines[r]]

NilTree == << >>

\* The syntax tree sitter.ParseCtx builds for a byte sequence.
TreeOf(bytes) == << bytes >>

\* The locals of SetSource before its loop.
ScanInit ==
    [i |-> 0, prevLine |-> -1, currentLine |-> 0, foundChar |-> FALSE,
     lineInfo |-> ZeroLineInfo, lines |-> EmptyLines]

\* The indentation step counting every tab and space of the row.
IndentEveryBlank(info, found, b) ==
    [info |-> IF b = TAB THEN [info EXCEPT !.indentation = @ + TabWidth]
              ELSE IF b = SP THEN [info EXCEPT !.indentation = @ + 1]
                   ELSE info,
     found |-> b \notin {TAB, SP}]

\* Calculate the indentation by counting the number of space characters:
\* the if / else if / else on b and foundChar.
IndentStep(info, found, b) ==
    IF b = TAB /\ ~found
    THEN [info |-> [info EXCEPT !.indentation = @ + TabWidth], found |-> found]
    ELSE IF b = SP /\ ~found
         THEN [info |-> [info EXCEPT !.indentation = @ + 1], found |-> found]
         ELSE [info |-> info, found |-> TRUE]

\* One iteration of the loop of SetSource on byte b.
ScanByte(st, b) ==
    LET fresh == st.prevLine # st.currentLine
        found0 == IF fresh THEN FALSE ELSE st.foundChar
        info0 == IF fresh THEN LineInfo(st.i, st.i, 0) ELSE st.lineInfo
        prev1 == IF fresh THEN st.currentLine ELSE st.prevLine
        step == IndentStep(info0, found0, b)
        info2 == IF b = NL THEN [step.info EXCEPT !.end = st.i] ELSE step.info
    IN  [i |-> st.i + 1,
         prevLine |-> prev1,
         currentLine |-> IF b = NL THEN st.currentLine + 1 ELSE st.currentLine,
         foundChar |-> step.found,
         lineInfo |-> info2,
         lines |-> IF b = NL THEN SetLine(st.lines, st.currentLine, info2)
                   ELSE st.lines]

RECURSIVE Scan(_, _, _)
\* The loop of SetSource from the k-th byte on.
Scan(bytes, k, st) ==
    IF k > Len(bytes) THEN st ELSE Scan(bytes, k + 1, ScanByte(st, bytes[k]))

\* m.source == nil
NilSource ==
    [nil |-> TRUE, data |-> << >>, colors |-> << >>, cursor |-> 0,
     tree |-> NilTree, lines |-> EmptyLines]

\* SetSource loads a file and computes the appropriate LineInfo's
SetSource(bytes) ==
    [nil |-> FALSE,
     data |-> bytes,
     colors |-> Repeat(DefaultColor, Len(bytes)),
     cursor |-> 0,
     tree |-> NilTree,
     lines |-> Scan(bytes, 1, ScanInit).lines]

\* cursorLeft without the clamp.
cursorLeftUnclamped(src, n) == [src EXCEPT !.cursor = src.cursor - n]

\* cursorLeft(n) and cursorRight(n)
cursorLeft(src, n) == [src EXCEPT !.cursor = clamp(src.cursor - n, 0, Len(src.data))]

\* cursorRight clamping to one past len(data).
cursorRightPastEnd(src, n) ==
    [src EXCEPT !.cursor = clamp(src.cursor + n, 0, Len(src.data) + 2)]

cursorRight(src, n) == [src EXCEPT !.cursor = clamp(src.cursor + n, 0, Len(src.data))]

\* cursorDown(n) and cursorUp(n) have empty bodies
cursorDown(src, n) == src

cursorUp(src, n) == src


\* ------------------------------------------------------------ highlighting
\* The switch of GenerateSyntaxTree from a capture's name to its base16 class.
ColorOf(name) ==
    CASE name = "attribute" -> 14
      [] name = "comment" -> 3
      [] name = "constant.builtin" -> 9
      [] name = "escape" -> 12
      [] name \in {"function", "function.method", "function.macro"} -> 13
      [] name = "keyword" -> 14
      [] name = "label" -> 12
      [] name = "number" -> 9
      [] name = "operator" -> 12
      [] name = "package" -> 13
      [] name = "property" -> 13
      [] name = "punctuation.bracket" -> 5
      [] name = "string" -> 11
      [] name \in {"type", "type.builtin"} -> 10
      [] name = "variable.member" -> 12
      [] name = "variable.parameter" -> 8
      [] OTHER -> 5

\* The names the switch knows.
TableNames ==
    {"attribute", "comment", "constant.builtin", "escape", "function",
     "function.method", "function.macro", "keyword", "label", "number",
     "operator", "package", "property", "punctuation.bracket", "string",
     "type", "type.builtin", "variable.member", "variable.parameter"}

\* A capture: a name and the byte range [start, end) of its node.
Capture(name, s, e) == [name |-> name, start |-> s, end |-> e]

\* The inner loop keeping the class an earlier capture wrote.
WriteCaptureFirstWins(colors, c) ==
    [j \in 1..Len(colors) |->
        IF c.start <= j - 1 /\ j - 1 < c.end /\ colors[j] = DefaultColor
        THEN ColorOf(c.name) ELSE colors[j]]

\* The inner loop over one capture: colors[index] = color for its range.
WriteCapture(colors, c) ==
    [j \in 1..Len(colors) |->
        IF c.start <= j - 1 /\ j - 1 < c.end THEN ColorOf(c.name) ELSE colors[j]]

\* The extensions with a grammar.
Supported == {".go", ".rs", ".nix"}

\* ------------------------------------------------------------- environment
OtherByte == CHOOSE b \in Bytes : b \notin {TAB, NL, SP}

\* A path on disk; filepath.Ext(path) is its ext.
File(name, ext) == [name |-> name, ext |-> ext]

NoPath == File("", "")

\* The files on disk of the editing session: path -> content.
Disk ==
    LET x == OtherByte
    IN  (File("a", ".go") :> << x, NL, SP, x, NL, TAB, x, NL >>)
        @@ (File("b", ".rs") :> << SP, x, NL, x, NL, x >>)
        @@ (File("d", ".xyz") :> << x, NL >>)
        @@ (File("e", ".nix") :> << >>)

\* A path os.OpenFile fails on.
Missing == File("gone", ".go")

\* All byte sequences of length at most n.
ByteSeqs(n) == UNION {[1..k -> Bytes] : k \in 0..n}

\* All sequences over S of length at most n.
SeqsUpTo(S, n) == UNION {[1..k -> S] : k \in 0..n}

\* What the parser and the highlight query yield for the files of the
\* session: ordered captures inside the bytes, the second inside the first.
QueryResults(bytes) ==
    IF Len(bytes) = 0 THEN {<< >>}
    ELSE {<< Capture("string", 0, Len(bytes)),
             Capture("escape", Len(bytes) - 1, Len(bytes)) >>}

\* Capture names of a highlight query: two of the table, one it lacks.
QueryNames == {"string", "escape", "embedded"}

\* Every capture of a non-empty node a query can yield inside n bytes.
Captures(n) ==
    {c \in [name : QueryNames, start : 0..n, end : 0..n] : c.start < c.end}

\* Terminal sizes of a WindowSizeMsg.
Widths == {80}

Heights == (ChromeRows + 1)..MaxHeight

\* Terminal cells of a mouse event: the gutter's edge and the text columns.
ClickCols == (Gutter - 1)..MaxX

ClickRows == 0..MaxY

\* ------------------------------------------------------------------- state
VARIABLES
    m,        \* the buffer Model
    tasks,    \* bag of the GenerateSyntaxTree commands in flight
    status,   \* the status or error the last handler call reported, "" if none
    panic,    \* the value the process panicked with, "" while it runs
    disk      \* the files on disk: path -> content

vars == << m, tasks, status, panic, disk >>

\* New()
New ==
    [Path |-> NoPath, fd |-> NoPath, Focused |-> TRUE, modified |-> FALSE,
     ready |-> FALSE, source |-> NilSource,
     viewport |-> [offset |-> 0, width |-> 0, height |-> 0]]

Init ==
    /\ m = New
    /\ tasks = EmptyBag
    /\ status = ""
    /\ panic = ""
    /\ disk = Disk

\* The command GenerateSyntaxTree(&source, extension) before it runs.
NewTask(src, ext) ==
    [pc |-> "queued", data |-> src.data, ext |-> ext, captures |-> << >>,
     next |-> 1, colors |-> << >>, tree |-> NilTree]

Single(t) == SetToBag({t})

\* The path is recorded before the file is opened and read.
OpenFilePathFirst(path) ==
    /\ panic = ""
    /\ UNCHANGED disk
    /\ IF path \notin DOMAIN disk
       THEN /\ status' = "error"
            /\ m' = [m EXCEPT !.Path = path]
            /\ UNCHANGED << tasks, panic >>
       ELSE /\ BagCardinality(tasks) < MaxTasks
            /\ LET src == SetSource(disk[path])
               IN  /\ m' = [m EXCEPT !.source = src,
                                     !.viewport.offset = 0,
                                     !.Path = path,
                                     !.fd = path,
                                     !.modified = FALSE]
                   /\ tasks' = tasks (+) Single(NewTask(src, path.ext))
            /\ status' = ""
            /\ UNCHANGED panic

\* OpenFile opens the given file inside the buffer. Of the batch it returns
\* only GenerateSyntaxTree is kept: Update has no case for the
\* UpdateViewportMsg of UpdateViewport.
OpenFile(path) ==
    /\ panic = ""
    /\ UNCHANGED disk
    /\ IF path \notin DOMAIN disk
       THEN /\ status' = "error"
            /\ UNCHANGED << m, tasks, panic >>
       ELSE /\ BagCardinality(tasks) < MaxTasks
            /\ LET src == SetSource(disk[path])
               IN  /\ m' = [m EXCEPT !.source = src,
                                     !.viewport.offset = 0,
                                     !.Path = path,
                                     !.fd = path,
                                     !.modified = FALSE]
                   /\ tasks' = tasks (+) Single(NewTask(src, path.ext))
            /\ status' = ""
            /\ UNCHANGED panic

\* Update, case tea.WindowSizeMsg
WindowSize(w, h) ==
    /\ panic = ""
    /\ m' = IF ~m.ready
            THEN [m EXCEPT !.viewport = [offset |-> 0, height |-> h - ChromeRows,
                                         width |-> w],
                           !.ready = TRUE]
            ELSE [m EXCEPT !.viewport.height = h - ChromeRows,
                           !.viewport.width = w]
    /\ status' = ""
    /\ UNCHANGED << tasks, panic, disk >>

\* A panic ends the process.
Panic(value) ==
    /\ panic' = value
    /\ UNCHANGED << m, tasks, status, disk >>

\* The clamp bound without the viewport's height.
ScrollHighNoHeight == Cardinality(DOMAIN m.source.lines) + 2

\* The upper clamp bound of every scroll.
ScrollHigh == Cardinality(DOMAIN m.source.lines) - m.viewport.height + 2

\* Update, case tea.KeyMsg
Key(k) ==
    /\ panic = ""
    /\ IF m.source.nil /\ k \in {"ctrl+u", "ctrl+d", "l", "h"}
       THEN Panic("nil pointer dereference")
       ELSE /\ m' = CASE k = "ctrl+u" ->
                          [m EXCEPT !.viewport.offset =
                              clamp(@ - GoDiv(m.viewport.height, 2), 0, ScrollHigh)]
                      [] k = "ctrl+d" ->
                          [m EXCEPT !.viewport.offset =
                              clamp(@ + GoDiv(m.viewport.height, 2), 0, ScrollHigh)]
                      [] k = "j" -> [m EXCEPT !.source = cursorDown(@, 1)]
                      [] k = "k" -> [m EXCEPT !.source = cursorUp(@, 1)]
                      [] k = "l" -> [m EXCEPT !.source = cursorRight(@, 1)]
                      [] k = "h" -> [m EXCEPT !.source = cursorLeft(@, 1)]
                      [] OTHER -> m
            /\ status' = ""
            /\ UNCHANGED << tasks, panic, disk >>

Keys == {"ctrl+u", "ctrl+d", "j", "k", "l", "h"}

\* The byte offset a left click at gutter-adjusted column x of a line maps to.
ClickPos(line, x) ==
    IF line.indentation > 0
    THEN GoDiv(min(x, line.indentation), 4) + clamp(x - line.indentation, 0, line.end)
    ELSE x

\* The final clamp without its lower bound.
ClickCursorNoFloor(line, x) == min(line.start + ClickPos(line, x), line.end)

\* The final clamp without the + 1.
ClickCursorShort(line, x) == clamp(line.start + ClickPos(line, x), line.start, line.end)

\* The final clamp of a click into the line.
ClickCursor(line, x) == clamp(line.start + ClickPos(line, x), line.start, line.end + 1)

\* Update, case tea.MouseMsg
Mouse(button, X, Y) ==
    /\ panic = ""
    /\ IF m.source.nil
       THEN Panic("nil pointer dereference")
       ELSE /\ m' = CASE button = "WheelUp" ->
                          [m EXCEPT !.viewport.offset =
                              clamp(@ - WheelDelta, 0, ScrollHigh)]
                      [] button = "WheelDown" ->
                          [m EXCEPT !.viewport.offset =
                              clamp(@ + WheelDelta, 0, ScrollHigh)]
                      [] button = "Left" ->
                          LET x == X - Gutter
                              row == m.viewport.offset + Y
                              line == LineAt(m.source.lines, row)
                          IN  [m EXCEPT !.source.cursor = ClickCursor(line, x)]
            /\ status' = ""
            /\ UNCHANGED << tasks, panic, disk >>

Buttons == {"WheelUp", "WheelDown", "Left"}


\* The command starts: the colors are prepared and the language is chosen;
\* an extension without a grammar panics. The parser and the query (the
\* embedded highlights.scm of the language, which compiles) yield the
\* captures caps.
TaskBegin(t, caps) ==
    /\ panic = ""
    /\ BagIn(t, tasks)
    /\ t.pc = "queued"
    /\ IF t.ext \notin Supported
       THEN Panic("Unsupported language")
       ELSE /\ tasks' = (tasks (-) Single(t)) (+)
                  Single([t EXCEPT !.pc = "running",
                                   !.colors = Repeat(DefaultColor, Len(t.data)),
                                   !.tree = TreeOf(t.data),
                                   !.captures = caps,
                                   !.next = 1])
            /\ UNCHANGED << m, status, panic, disk >>

\* The capture is written into the colors of the buffer itself as well.
TaskCaptureInPlace(t) ==
    /\ panic = ""
    /\ BagIn(t, tasks)
    /\ t.pc = "running"
    /\ t.next <= Len(t.captures)
    /\ tasks' = (tasks (-) Single(t)) (+)
           Single([t EXCEPT !.colors = WriteCapture(@, t.captures[t.next]),
                            !.next = @ + 1])
    /\ m' = [m EXCEPT !.source.colors = WriteCapture(t.colors, t.captures[t.next])]
    /\ UNCHANGED << status, panic, disk >>

\* One capture of the query loop is written into the task's colors.
TaskCapture(t) ==
    /\ panic = ""
    /\ BagIn(t, tasks)
    /\ t.pc = "running"
    /\ t.next <= Len(t.captures)
    /\ tasks' = (tasks (-) Single(t)) (+)
           Single([t EXCEPT !.colors = WriteCapture(@, t.captures[t.next]),
                            !.next = @ + 1])
    /\ UNCHANGED << m, status, panic, disk >>

\* The loop is over: the command returns its TreeReloadMsg.
TaskReturn(t) ==
    /\ panic = ""
    /\ BagIn(t, tasks)
    /\ t.pc = "running"
    /\ t.next > Len(t.captures)
    /\ tasks' = (tasks (-) Single(t)) (+) Single([t EXCEPT !.pc = "done"])
    /\ UNCHANGED << m, status, panic, disk >>

\* The delivery also moves the viewport back to the top.
TreeReloadToTop(t) ==
    /\ panic = ""
    /\ BagIn(t, tasks)
    /\ t.pc = "done"
    /\ m' = [m EXCEPT !.source.colors = t.colors,
                      !.source.tree = t.tree,
                      !.viewport.offset = 0]
    /\ tasks' = tasks (-) Single(t)
    /\ status' = "Treesitter loaded successfully"
    /\ UNCHANGED << panic, disk >>

\* Update, case TreeReloadMsg: the message of a finished command arrives.
TreeReload(t) ==
    /\ panic = ""
    /\ BagIn(t, tasks)
    /\ t.pc = "done"
    /\ m' = [m EXCEPT !.source.colors = t.colors,
                      !.source.tree = t.tree]
    /\ tasks' = tasks (-) Single(t)
    /\ status' = "Treesitter loaded successfully"
    /\ UNCHANGED << panic, disk >>

\* The rows View draws: viewport.offset up to offset + height.
ViewRows == m.viewport.offset..(m.viewport.offset + m.viewport.height - 1)

\* s[start:end] of a slice of n elements made with that capacity is in range.
SliceOk(start, end, n) == 0 <= start /\ start <= end /\ end <= n

\* View renders the Buffer content to screen: nothing without a source;
\* else each row's GetSlice and GetColors, which panic out of range.
View ==
    /\ panic = ""
    /\ IF \/ m.source.nil
          \/ \A i \in ViewRows :
                LET lineinfo == LineAt(m.source.lines, i)
                IN  /\ SliceOk(lineinfo.start, lineinfo.end, Len(m.source.data))
                    /\ SliceOk(lineinfo.start, lineinfo.end, Len(m.source.colors))
       THEN UNCHANGED vars
       ELSE Panic("slice bounds out of range")

Next ==
    \/ View
    \/ \E p \in DOMAIN disk \cup {Missing} : OpenFile(p)
    \/ \E w \in Widths, h \in Heights : WindowSize(w, h)
    \/ \E k \in Keys : Key(k)
    \/ \E b \in Buttons \ {"Left"} : Mouse(b, 0, 0)
    \/ \E X \in ClickCols, Y \in ClickRows : Mouse("Left", X, Y)
    \/ \E t \in BagToSet(tasks) :
          /\ t.pc = "queued"
          /\ \E caps \in QueryResults(t.data) : TaskBegin(t, caps)
    \/ \E t \in BagToSet(tasks) : TaskCapture(t)
    \/ \E t \in BagToSet(tasks) : TaskReturn(t)
    \/ \E t \in BagToSet(tasks) : TreeReload(t)

Spec == Init /\ [][Next]_vars


\* ------------------------------------------------- input events alone
\* The event loop while the parse commands it dispatched are still queued:
\* files are opened and the window, key and mouse events are handled.
NextNav ==
    \/ View
    \/ \E p \in DOMAIN disk \cup {Missing} : OpenFile(p)
    \/ \E w \in Widths, h \in Heights : WindowSize(w, h)
    \/ \E k \in Keys : Key(k)
    \/ \E b \in Buttons \ {"Left"} : Mouse(b, 0, 0)
    \/ \E X \in ClickCols, Y \in ClickRows : Mouse("Left", X, Y)

SpecNav == Init /\ [][NextNav]_vars

\* ----------------------------------------------- SetSource on any bytes
\* One file of any content of at most MaxLen bytes, opened once.
InitSetSource ==
    /\ m = New
    /\ tasks = EmptyBag
    /\ status = ""
    /\ panic = ""
    /\ disk \in {File("f", ".go") :> b : b \in ByteSeqs(MaxLen)}

NextSetSource ==
    /\ m.source.nil
    /\ \E p \in DOMAIN disk : OpenFile(p)

SpecSetSource == InitSetSource /\ [][NextSetSource]_vars

\* ------------------------------------------- highlighting any captures
\* One file of at most MaxHlLen bytes, opened once; the parser yields any
\* sequence of at most MaxCaptures captures inside it.
InitHighlight ==
    /\ m = New
    /\ tasks = EmptyBag
    /\ status = ""
    /\ panic = ""
    /\ disk \in {File("f", ".go") :> Repeat(OtherByte, n) : n \in 0..MaxHlLen}

NextHighlight ==
    \/ /\ m.source.nil
       /\ \E p \in DOMAIN disk : OpenFile(p)
    \/ \E t \in BagToSet(tasks) :
          /\ t.pc = "queued"
          /\ \E caps \in SeqsUpTo(Captures(Len(t.data)), MaxCaptures) :
                TaskBegin(t, caps)
    \/ \E t \in BagToSet(tasks) : TaskCapture(t)
    \/ \E t \in BagToSet(tasks) : TaskReturn(t)
    \/ \E t \in BagToSet(tasks) : TreeReload(t)

SpecHighlight == InitHighlight /\ [][NextHighlight]_vars

\* ------------------------------------------- the loop over two files
\* The whole event loop in a session whose disk holds a.go and e.nix only.
InitTwoFiles ==
    /\ m = New
    /\ tasks = EmptyBag
    /\ status = ""
    /\ panic = ""
    /\ disk = [p \in {File("a", ".go"), File("e", ".nix")} |-> Disk[p]]

SpecTwoFiles == InitTwoFiles /\ [][Next]_vars


\* ================================================================ claims
Opened == ~m.source.nil

RowCount == Cardinality(DOMAIN m.source.lines)

\* The number of bytes b of a sequence.
Count(bytes, b) == Cardinality({j \in 1..Len(bytes) : bytes[j] = b})

\* C1: a TreeReloadMsg whose colors were computed from a byte snapshot whose
\* length differs from the current buffer's is discarded: the delivery
\* leaves the buffer's colors and tree as they were.
C1_StaleResultDiscarded ==
    [][\A t \in BagToSet(tasks) :
          (TreeReload(t) /\ Len(t.colors) # Len(m.source.data))
              => /\ m'.source.colors = m.source.colors
                 /\ m'.source.tree = m.source.tree]_vars

\* C2: in every reachable state of an opened buffer there is one color
\* per byte: len(colors) == len(data).
C2_ColorsMatchData == Opened => Len(m.source.colors) = Len(m.source.data)

\* C3: the rows of the line index are keyed 0..n-1, row 0 starts at offset
\* 0, each later row starts at previous.end + 1, and the closed ranges
\* [start, end] cover exactly [0, len(data)), also when the bytes do not end
\* with a newline.
C3_LinesPartition ==
    Opened =>
        LET L == m.source.lines
            n == RowCount
        IN  /\ DOMAIN L = 0..(n - 1)
            /\ \A r \in DOMAIN L : L[r].start <= L[r].end
            /\ n > 0 => L[0].start = 0
            /\ \A r \in 1..(n - 1) : L[r].start = L[r - 1].end + 1
            /\ IF n = 0 THEN Len(m.source.data) = 0
               ELSE L[n - 1].end = Len(m.source.data) - 1

\* C4: for non-empty bytes whose last byte is not a newline the final row
\* is committed, from the offset after the last newline (0 if none) to the
\* last byte, so there are (number of newlines) + 1 rows; for empty input
\* the line index is empty.
C4_FinalRowCommitted ==
    Opened =>
        LET d == m.source.data
            L == m.source.lines
            nls == {j \in 0..(Len(d) - 1) : d[j + 1] = NL}
            lastStart == IF nls = {} THEN 0
                         ELSE (CHOOSE j \in nls : \A k \in nls : k <= j) + 1
        IN  /\ Len(d) = 0 => DOMAIN L = {}
            /\ (Len(d) > 0 /\ d[Len(d)] # NL) =>
                  /\ RowCount = Count(d, NL) + 1
                  /\ Count(d, NL) \in DOMAIN L
                  /\ L[Count(d, NL)].start = lastStart
                  /\ L[Count(d, NL)].end = Len(d) - 1


\* The end of the maximal run of tab and space bytes beginning at offset s.
RunEnd(d, s) ==
    CHOOSE j \in s..Len(d) :
        /\ \A k \in s..(j - 1) : d[k + 1] \in {TAB, SP}
        /\ j = Len(d) \/ d[j + 1] \notin {TAB, SP}

\* 4 x tabs + 1 x spaces over that run.
LeadingWidth(d, s) ==
    4 * Cardinality({k \in s..(RunEnd(d, s) - 1) : d[k + 1] = TAB})
      + Cardinality({k \in s..(RunEnd(d, s) - 1) : d[k + 1] = SP})

\* C5: the indentation of every committed row is 4 x tabs + 1 x spaces
\* counted over the maximal run of tabs and spaces at the row's start only.
C5_Indentation ==
    Opened =>
        \A r \in DOMAIN m.source.lines :
            m.source.lines[r].indentation =
                LeadingWidth(m.source.data, m.source.lines[r].start)

\* A committed, indented row with a tab or space after its first other byte.
C5_Witness ==
    /\ Opened
    /\ \E r \in DOMAIN m.source.lines :
          LET line == m.source.lines[r]
          IN  /\ line.indentation > 0
              /\ \E k \in RunEnd(m.source.data, line.start)..line.end :
                    m.source.data[k + 1] \in {TAB, SP}

\* C6: highlighting a file whose extension has no grammar ends in a
\* recoverable condition: the process never panics with "Unsupported
\* language", so the event loop keeps handling events.
C6_UnsupportedLanguageRecoverable == panic # "Unsupported language"

OffsetBound == max(0, RowCount - m.viewport.height + 2)

OffsetInBounds == 0 <= m.viewport.offset /\ m.viewport.offset <= OffsetBound

\* C7 as claimed: 0 <= offset <= max(0, rowCount - height + 2) in every
\* reachable state of an opened buffer, resizes included.
C7_OffsetAlwaysInBounds == Opened => OffsetInBounds

\* A half-page or wheel scroll event.
ScrollEvent ==
    \/ \E k \in {"ctrl+u", "ctrl+d"} : Key(k)
    \/ \E b \in {"WheelUp", "WheelDown"} : Mouse(b, 0, 0)

\* C7 amended: the offset is never negative; it is within
\* [0, max(0, rowCount - height + 2)] after every successful OpenFile and
\* every scroll, and every event that leaves the height as it was keeps it
\* within that range.
C7_OffsetInBoundsAfterScroll ==
    [][/\ m'.viewport.offset >= 0
       /\ \/ ~Opened'
          \/ OffsetInBounds'
          \/ /\ ~ScrollEvent
             /\ ~(\E p \in DOMAIN disk : OpenFile(p))
             /\ ~(Opened /\ OffsetInBounds
                    /\ m'.viewport.height = m.viewport.height)]_vars

\* A scroll has brought the viewport to the last offset the clamp allows.
C7_Witness ==
    /\ Opened
    /\ m.viewport.offset > 0
    /\ m.viewport.offset = RowCount - m.viewport.height + 1

\* C8: the cursor is never outside [0, len(data)], however often and in
\* whatever order cursorLeft and cursorRight are applied.
C8_CursorInData ==
    Opened => 0 <= m.source.cursor /\ m.source.cursor <= Len(m.source.data)

\* The cursor has been moved to the last offset cursorRight allows.
C8_Witness ==
    /\ Opened
    /\ Len(m.source.data) > 1
    /\ m.source.cursor = Len(m.source.data) - 1

\* The class the claim gives byte i under the captures caps: that of the
\* last capture containing i, the default class if its name is not in the
\* table or no capture contains i.
ExpectedColor(caps, i) ==
    LET hits == {k \in 1..Len(caps) : caps[k].start <= i /\ i < caps[k].end}
        last == CHOOSE k \in hits : \A h \in hits : h <= k
    IN  IF hits = {} THEN 5
        ELSE IF caps[last].name \in TableNames THEN ColorOf(caps[last].name)
             ELSE 5

\* C9: the colors a finished highlight returns have the length of the bytes
\* and give every byte the class of the last capture, in processing order,
\* whose range contains it.
C9_LastCaptureWins ==
    \A t \in BagToSet(tasks) :
        t.pc = "done" =>
            /\ Len(t.colors) = Len(t.data)
            /\ \A i \in 0..(Len(t.data) - 1) :
                  t.colors[i + 1] = ExpectedColor(t.captures, i)

\* A finished highlight in which an "escape" capture overwrote part of an
\* earlier "string" capture.
C9_Witness ==
    \E t \in BagToSet(tasks) :
        /\ t.pc = "done"
        /\ Len(t.captures) = 2
        /\ t.captures[1].name = "string"
        /\ t.captures[2].name = "escape"
        /\ \E i \in 0..(Len(t.data) - 1) :
              /\ t.captures[1].start <= i /\ i < t.captures[1].end
              /\ t.captures[2].start <= i /\ i < t.captures[2].end
              /\ t.colors[i + 1] = 12
        /\ \E i \in 0..(Len(t.data) - 1) : t.colors[i + 1] = 11

\* C10: a left click at gutter-adjusted column x, 0 <= x <= end - start, on
\* an existing row of indentation 0 sets the cursor to line.start + x (to
\* line.start for x = 0), for every viewport offset and screen row.
C10_ClickUnindentedRow ==
    [][\A X \in ClickCols, Y \in ClickRows :
          LET x == X - Gutter
              row == m.viewport.offset + Y
              line == LineAt(m.source.lines, row)
          IN  \/ m'.source.cursor = line.start + x
              \/ ~(/\ Opened
                    /\ row \in DOMAIN m.source.lines
                    /\ line.indentation = 0
                    /\ 0 <= x
                    /\ x <= line.end - line.start
                    /\ Mouse("Left", X, Y))]_vars

\* The viewport is scrolled and the cursor is on the terminator of the
\* unindented row at the top of the screen.
C10_Witness ==
    /\ Opened
    /\ m.viewport.offset > 0
    /\ m.viewport.offset \in DOMAIN m.source.lines
    /\ m.source.lines[m.viewport.offset].indentation = 0
    /\ m.source.lines[m.viewport.offset].end > m.source.lines[m.viewport.offset].start
    /\ m.source.cursor = m.source.lines[m.viewport.offset].end


\* The colors installed at open: the default class for every byte.
DefaultOverlay == Repeat(DefaultColor, Len(m.source.data))

\* The colors of the whole capture sequence caps over bytes.
FullOverlay(bytes, caps) == [j \in 1..Len(bytes) |-> ExpectedColor(caps, j - 1)]

\* Every complete overlay a parse command of the session can deliver.
CompleteOverlays ==
    UNION {{FullOverlay(disk[p], caps) : caps \in QueryResults(disk[p])} :
              p \in DOMAIN disk}

\* C11: the colors a render sees are the all-default overlay installed at
\* open or the complete overlay of a finished parse command, never an
\* overlay with only part of a command's captures written.
C11_RenderSeesWholeOverlay ==
    Opened =>
        \/ m.source.colors = DefaultOverlay
        \/ m.source.colors \in CompleteOverlays

\* A parse command of the current bytes has written the first of its two
\* captures while the buffer still shows the default overlay.
C11_Witness ==
    /\ Opened
    /\ m.source.colors = DefaultOverlay
    /\ \E t \in BagToSet(tasks) :
          /\ t.pc = "running"
          /\ t.data = m.source.data
          /\ t.next = 2
          /\ Len(t.captures) = 2
          /\ t.colors # DefaultOverlay
          /\ t.colors \notin CompleteOverlays


\* C12: an OpenFile that fails to open or read the file leaves the model,
\* the source and the viewport exactly as they were, dispatches no parse
\* command and reports an error status.
C12_OpenFailureKeepsState ==
    [][\/ /\ m' = m
          /\ tasks' = tasks
          /\ status' = "error"
       \/ ~OpenFile(Missing)]_vars

\* A failed open reported while a buffer is loaded, scrolled and has its
\* parse command in flight.
C12_Witness ==
    /\ status = "error"
    /\ Opened
    /\ m.viewport.offset > 0
    /\ m.source.cursor > 0
    /\ tasks # EmptyBag


\* C13: every GetSlice and GetColors call View makes for the rows in
\* [offset, offset + height), rows past the line index and renders after a
\* parse-completion delivery included, has 0 <= start <= end <= len(data)
\* and end <= len(colors).
C13_ViewSlicesInRange ==
    Opened =>
        \A i \in ViewRows :
            LET lineinfo == LineAt(m.source.lines, i)
            IN  /\ 0 <= lineinfo.start
                /\ lineinfo.start <= lineinfo.end
                /\ lineinfo.end <= Len(m.source.data)
                /\ lineinfo.end <= Len(m.source.colors)


\* The overlays a parse of the current buffer's bytes computes.
CurrentOverlays ==
    {FullOverlay(m.source.data, caps) : caps \in QueryResults(m.source.data)}

\* C14: once every dispatched parse command has completed and its result
\* has been consumed, the colors are the overlay computed from the current
\* buffer's bytes: no stale overlay is left applied.
C14_SettledOverlayIsCurrent ==
    (Opened /\ panic = "" /\ tasks = EmptyBag) =>
        /\ m.source.colors \in CurrentOverlays
        /\ m.source.tree = TreeOf(m.source.data)


\* floor(height / 2), the half page of the claim.
HalfPage == m.viewport.height \div 2

\* The offset the claim gives a scroll by delta.
ScrollClaimed(delta) ==
    min(max(m.viewport.offset + delta, 0), OffsetBound)

\* The offset a scroll by delta has with the half-open clamp.
ScrollAmended(delta) ==
    max(0, min(m.viewport.offset + delta, RowCount - m.viewport.height + 1))

\* C15 as claimed: a half-page scroll (delta = -/+ floor(height / 2)) and a
\* wheel scroll (delta = -/+ 3) set offset to
\* min(max(offset + delta, 0), max(0, rowCount - height + 2)), so repeated
\* scrolling down reaches rowCount - height + 2.
C15_ScrollToClaimedBound ==
    [][/\ m'.viewport.offset = ScrollClaimed(-HalfPage) \/ ~(Opened /\ Key("ctrl+u"))
       /\ m'.viewport.offset = ScrollClaimed(HalfPage) \/ ~(Opened /\ Key("ctrl+d"))
       /\ m'.viewport.offset = ScrollClaimed(-WheelDelta)
             \/ ~(Opened /\ Mouse("WheelUp", 0, 0))
       /\ m'.viewport.offset = ScrollClaimed(WheelDelta)
             \/ ~(Opened /\ Mouse("WheelDown", 0, 0))]_vars

\* C15 amended: each scroll sets offset to
\* max(0, min(offset + delta, rowCount - height + 1)); a scroll down from
\* rowCount - height + 1 stays there.
C15_ScrollToHalfOpenBound ==
    [][/\ m'.viewport.offset = ScrollAmended(-HalfPage) \/ ~(Opened /\ Key("ctrl+u"))
       /\ m'.viewport.offset = ScrollAmended(HalfPage) \/ ~(Opened /\ Key("ctrl+d"))
       /\ m'.viewport.offset = ScrollAmended(-WheelDelta)
             \/ ~(Opened /\ Mouse("WheelUp", 0, 0))
       /\ m'.viewport.offset = ScrollAmended(WheelDelta)
             \/ ~(Opened /\ Mouse("WheelDown", 0, 0))
       /\ \/ m'.viewport.offset = m.viewport.offset
          \/ ~(/\ Opened
               /\ m.viewport.offset = RowCount - m.viewport.height + 1
               /\ Key("ctrl+d") \/ Mouse("WheelDown", 0, 0))]_vars

\* Scrolling down a viewport of two or more rows has stopped at
\* rowCount - height + 1, one short of the claimed bound.
C15_Witness ==
    /\ Opened
    /\ m.viewport.height >= 2
    /\ m.viewport.offset >= 1
    /\ m.viewport.offset = RowCount - m.viewport.height + 1
    /\ m.viewport.offset < OffsetBound

\* C16 as claimed: 'l' sets the cursor to min(cursor + 1, len(data)) and 'h'
\* to max(cursor - 1, 0), so len(data) presses of 'l' from 0 reach len(data).
C16_CursorKeysToLen ==
    [][/\ m'.source.cursor = min(m.source.cursor + 1, Len(m.source.data))
             \/ ~(Opened /\ Key("l"))
       /\ m'.source.cursor = max(m.source.cursor - 1, 0)
             \/ ~(Opened /\ Key("h"))]_vars

\* C16 amended: 'l' sets the cursor to max(0, min(cursor + 1, len(data) - 1))
\* and 'h' to max(cursor - 1, 0); the cursor never leaves
\* [0, max(0, len(data) - 1)], so 'l' stops at len(data) - 1.
C16_CursorKeysToLastByte ==
    [][/\ m'.source.cursor = max(0, min(m.source.cursor + 1, Len(m.source.data) - 1))
             \/ ~(Opened /\ Key("l"))
       /\ m'.source.cursor = max(m.source.cursor - 1, 0)
             \/ ~(Opened /\ Key("h"))
       /\ m'.source.cursor <= max(0, Len(m'.source.data) - 1)
             \/ ~Opened']_vars

\* The cursor rests on the last byte of a.go, where 'l' leaves it.
C16_Witness ==
    /\ Opened
    /\ m.Path = File("a", ".go")
    /\ m.source.cursor = Len(m.source.data) - 1


\* The click position of the claim: the column past the indentation is
\* clamped by the line's own length.
ClickPosClaimed(line, x) ==
    GoDiv(min(x, line.indentation), 4)
        + clamp(x - line.indentation, 0, line.end - line.start)

\* C17: a left click at gutter-adjusted column x on a row with
\* indentation > 0 sets the cursor to
\* clamp(line.start + pos, line.start, line.end + 1) with
\* pos = min(x, indentation) / 4 + clamp(x - indentation, 0, lineLength),
\* lineLength being line.end - line.start.
C17_ClickIndentedRow ==
    [][\A X \in ClickCols, Y \in ClickRows :
          LET x == X - Gutter
              row == m.viewport.offset + Y
              line == LineAt(m.source.lines, row)
          IN  \/ m'.source.cursor =
                    clamp(line.start + ClickPosClaimed(line, x),
                          line.start, line.end + 1)
              \/ ~(/\ Opened
                   /\ row \in DOMAIN m.source.lines
                   /\ line.indentation > 0
                   /\ Mouse("Left", X, Y))]_vars


\* C18: for every row of the line index, first row or later, indented or
\* not, no left click in that row puts the cursor outside
\* [line.start, line.end], and some click column puts it exactly on line.end.
C18_ClickReachesLineEnd ==
    (Opened /\ panic = "") =>
        \A Y \in ClickRows :
            LET row == m.viewport.offset + Y
                line == LineAt(m.source.lines, row)
            IN  row \in DOMAIN m.source.lines =>
                    /\ \A X \in ClickCols :
                          ~ENABLED (/\ Mouse("Left", X, Y)
                                    /\ \/ m'.source.cursor < line.start
                                       \/ m'.source.cursor > line.end)
                    /\ \E X \in ClickCols :
                          ENABLED (/\ Mouse("Left", X, Y)
                                   /\ m'.source.cursor = line.end)


\* The parts of the model the frame conditions speak of.
Text == << m.source.data, m.source.lines >>

Overlay == << m.source.colors, m.source.tree >>

\* A cursor key or a left click.
CursorEvent ==
    \/ \E k \in {"j", "k", "l", "h"} : Key(k)
    \/ \E X \in ClickCols, Y \in ClickRows : Mouse("Left", X, Y)

\* A half-page scroll, a wheel scroll or a resize.
ViewportEvent ==
    \/ ScrollEvent
    \/ \E w \in Widths, h \in Heights : WindowSize(w, h)

\* C19: cursor keys and left clicks change only the cursor; half-page
\* scrolls, wheel scrolls and resizes change only the viewport; a
\* parse-completion delivery changes only colors and tree; data and lines
\* change only on OpenFile.
C19_FrameConditions ==
    [][/\ \/ /\ Text' = Text
             /\ Overlay' = Overlay
             /\ m'.viewport = m.viewport
          \/ ~CursorEvent
       /\ \/ m'.source = m.source
          \/ ~ViewportEvent
       /\ \/ /\ Text' = Text
             /\ m'.source.cursor = m.source.cursor
             /\ m'.viewport = m.viewport
          \/ ~(\E t \in BagToSet(tasks) : TreeReload(t))
       /\ \/ Text' = Text
          \/ \E p \in DOMAIN disk : OpenFile(p)]_vars

\* A parse result has been delivered to a buffer whose cursor had been moved
\* and whose viewport had been scrolled: both are as the events left them.
C19_Witness ==
    /\ Opened
    /\ status = "Treesitter loaded successfully"
    /\ m.source.colors # DefaultOverlay
    /\ m.source.tree = TreeOf(m.source.data)
    /\ m.source.cursor > 0
    /\ m.viewport.offset > 0


\* C20: the cursor is a valid byte index, 0 <= cursor <= max(0, len(data) - 1),
\* after every event (OpenFile, cursor keys, clicks at any column, the
\* negative gutter-adjusted ones included, scrolls, resizes, parse
\* completions); OpenFile resets it to 0, and a click on a row absent from
\* the line index sets it to 0.
C20_CursorIsByteIndex ==
    [][/\ \/ ~Opened'
          \/ /\ 0 <= m'.source.cursor
             /\ m'.source.cursor <= max(0, Len(m'.source.data) - 1)
       /\ \/ m'.source.cursor = 0
          \/ /\ ~(\E p \in DOMAIN disk : OpenFile(p))
             /\ \A X \in ClickCols, Y \in ClickRows :
                   \/ m.viewport.offset + Y \in DOMAIN m.source.lines
                   \/ ~(Opened /\ Mouse("Left", X, Y))]_vars

\* The cursor is on the last byte while the viewport lies wholly past the
\* line index: every click from here is on an absent row.
C20_Witness ==
    /\ Opened
    /\ m.source.cursor > 0
    /\ m.source.cursor = Len(m.source.data) - 1
    /\ m.viewport.offset >= RowCount

====
